---- MODULE Spec2Model ----
(***************************************************************************)
(* A model of the retrieval-augmented query and conversation engine of     *)
(* sf-dining-rag: the vector query adapter (src/vector_db.py,              *)
(* src/query.py), the conversation store (src/conversation.py), the chat   *)
(* orchestration (src/chat.py, src/api/main.py), the rate limiting of the  *)
(* HTTP routes (src/api/main.py, src/api/dependencies.py) and the indexing *)
(* side: the chunker (src/chunking.py), the embedding gateway              *)
(* (src/embedding.py) and the upsert paths (src/vector_db.py,              *)
(* src/upload_to_pinecone.py, src/rag_indexer.py).                         *)
(*                                                                         *)
(* Eight specifications share the module:                                  *)
(*   SpecQuery  calls of query_similar and get_similar_chunks              *)
(*   SpecRate   requests of one client against the rate-limited routes     *)
(*   Spec       the chat requests over the conversation managers           *)
(*   SpecStore  the store operations of one manager and the cleanup        *)
(*   SpecService  the chat requests and the cleanup over days              *)
(*   SpecChunk  calls of chunk_text                                        *)
(*   SpecEmbed  calls of get_embedding and batch_generate_embeddings       *)
(*   SpecUpsert calls of the four upsert paths                             *)
(* Each leaves the variables it does not use unchanged.                    *)
(***************************************************************************)
EXTENDS Integers, Sequences, FiniteSets, TLC

VARIABLES
    lastQuery,      \* the last call of query_similar / get_similar_chunks
    hits,           \* rate limiter: requests counted per route in its current window
    lastResp,       \* rate limiter: the response to the client's last request
    now,            \* the clock, in days
    disk,           \* the storage directory: the file <id>.json of each conversation id
    convs,          \* the conversations dictionary of each ConversationManager
    req,            \* the chat requests: where each stands and what it returned
    lastCleanup,    \* the cleanup call whose response is being returned
    lastAdd,        \* the call of ConversationManager.add_message that has just returned
    lastChunk,      \* the last call of chunk_text
    lastEmbed,      \* the last call of get_embedding / batch_generate_embeddings
    lastUpsert,     \* the last call of one of the upsert paths into the index
    index           \* the vector index: the stored vectors, and the upsert calls made

queryVars == <<lastQuery>>
rateVars == <<hits, lastResp>>
convVars == <<now, disk, convs, req, lastCleanup, lastAdd>>
indexVars == <<lastChunk, lastEmbed, lastUpsert, index>>
vars == <<lastQuery, hits, lastResp, now, disk, convs, req, lastCleanup, lastAdd, lastChunk,
          lastEmbed, lastUpsert, index>>

(***************************************************************************)
(* The chunker (src/chunking.py).  A text is the sequence of its           *)
(* characters; the model tells apart word characters (\w), whitespace,     *)
(* the sentence punctuation [.!?], the clause punctuation [,;:] and other  *)
(* punctuation, one or two characters of each kind.                        *)
(***************************************************************************)

\* The longest text given to chunk_text.
MaxTextLen == 5

\* The largest max_tokens given to chunk_text.
MaxTokens == 2

WordChars == {"a", "b"}
SpaceChars == {" "}
SentencePunct == {"."}
ClausePunct == {","}
OtherPunct == {"'"}
Chars == WordChars \cup SpaceChars \cup SentencePunct \cup ClausePunct \cup OtherPunct

Texts == UNION {[1..k -> Chars] : k \in 0..MaxTextLen}

\* count_tokens: len(re.findall(r'\w+', text)), the maximal runs of word
\* characters.
count_tokens(text) ==
    Cardinality({i \in 1..Len(text) :
                    /\ text[i] \in WordChars
                    /\ (i = 1 \/ text[i - 1] \notin WordChars)})

\* re.split on a class of separator characters: the pieces between the
\* separators; with runs, a run of separators separates once ([.!?]+).
ReSplit(text, seps, runs) ==
    LET F[i \in 0..Len(text)] ==
            IF i = 0 THEN << <<>> >>
            ELSE IF text[i] \in seps
                 THEN IF runs /\ i > 1 /\ text[i - 1] \in seps
                      THEN F[i - 1]
                      ELSE Append(F[i - 1], <<>>)
                 ELSE [F[i - 1] EXCEPT ![Len(F[i - 1])] = Append(@, text[i])]
    IN F[Len(text)]

RECURSIVE LStrip(_)
LStrip(text) ==
    IF text # <<>> /\ text[1] \in SpaceChars THEN LStrip(Tail(text)) ELSE text

RECURSIVE RStrip(_)
RStrip(text) ==
    IF text # <<>> /\ text[Len(text)] \in SpaceChars
    THEN RStrip(SubSeq(text, 1, Len(text) - 1))
    ELSE text

\* str.strip()
Strip(text) == RStrip(LStrip(text))

\* str.split() keeping the first word only.
WhitespaceSplit_First(text) ==
    SubSeq(SelectSeq(ReSplit(text, SpaceChars, TRUE), LAMBDA w : w # <<>>), 1, 1)

\* str.split(): the words between runs of whitespace.
WhitespaceSplit(text) ==
    SelectSeq(ReSplit(text, SpaceChars, TRUE), LAMBDA w : w # <<>>)

RECURSIVE Join(_)
\* ' '.join(pieces)
Join(pieces) ==
    IF pieces = <<>> THEN <<>>
    ELSE IF Len(pieces) = 1 THEN pieces[1]
    ELSE pieces[1] \o <<" ">> \o Join(Tail(pieces))

RECURSIVE TakeWords(_, _, _)
\* The inner loop of the word packing: how many of the words go into the
\* chunk that holds chunk_tokens so far.
TakeWords(words, chunk_tokens, max_tokens) ==
    IF words = <<>> \/ ~(chunk_tokens < max_tokens) THEN 0
    ELSE IF chunk_tokens + count_tokens(words[1]) > max_tokens THEN 0
    ELSE 1 + TakeWords(Tail(words), chunk_tokens + count_tokens(words[1]), max_tokens)

RECURSIVE pack_words(_, _)
\* "while words:" of chunk_text: chunks of words of at most max_tokens.  When
\* the first word alone exceeds max_tokens the chunk stays empty and no word
\* is popped: the loop runs forever.
pack_words(words, max_tokens) ==
    IF words = <<>> THEN [hangs |-> FALSE, chunks |-> <<>>]
    ELSE LET k == TakeWords(words, 0, max_tokens) IN
         IF k = 0 THEN [hangs |-> TRUE, chunks |-> <<>>]
         ELSE LET rest == pack_words(SubSeq(words, k + 1, Len(words)), max_tokens)
              IN [hangs |-> rest.hangs,
                  chunks |-> <<Join(SubSeq(words, 1, k))>> \o rest.chunks]

RECURSIVE split_long_sentence(_, _)
\* The loop over the parts of a sentence that is too long.
split_long_sentence(parts, max_tokens) ==
    IF parts = <<>> THEN [hangs |-> FALSE, chunks |-> <<>>]
    ELSE LET part == Strip(parts[1])
             here == IF part = <<>> THEN [hangs |-> FALSE, chunks |-> <<>>]
                     ELSE IF count_tokens(part) > max_tokens
                          THEN pack_words(WhitespaceSplit(part), max_tokens)
                          ELSE [hangs |-> FALSE, chunks |-> <<part>>]
         IN IF here.hangs THEN here
            ELSE LET rest == split_long_sentence(Tail(parts), max_tokens)
                 IN [hangs |-> rest.hangs, chunks |-> here.chunks \o rest.chunks]

RECURSIVE chunk_sentences(_, _, _, _, _)
\* The loop of chunk_text over the sentences, and the final chunk.
chunk_sentences(sentences, max_tokens, chunks, current_chunk, current_token_count) ==
    IF sentences = <<>>
    THEN [hangs |-> FALSE,
          chunks |-> IF current_chunk # <<>>
                     THEN Append(chunks, Join(current_chunk)) ELSE chunks]
    ELSE LET sentence == sentences[1]
             sentence_tokens == count_tokens(sentence)
         IN IF sentence_tokens > max_tokens
            THEN LET flushed == IF current_chunk # <<>>
                                THEN Append(chunks, Join(current_chunk))
                                ELSE chunks
                     long == split_long_sentence(
                                 ReSplit(sentence, ClausePunct, FALSE), max_tokens)
                 IN IF long.hangs THEN long
                    ELSE chunk_sentences(Tail(sentences), max_tokens,
                                         flushed \o long.chunks, <<>>, 0)
            ELSE IF current_token_count + sentence_tokens > max_tokens
            THEN chunk_sentences(Tail(sentences), max_tokens,
                                 IF current_chunk # <<>>
                                 THEN Append(chunks, Join(current_chunk))
                                 ELSE chunks,
                                 <<sentence>>, sentence_tokens)
            ELSE chunk_sentences(Tail(sentences), max_tokens, chunks,
                                 Append(current_chunk, sentence),
                                 current_token_count + sentence_tokens)

\* chunk_text(text, max_tokens): the chunks, or hangs if the call never
\* returns.
chunk_text(text, max_tokens) ==
    IF text = <<>> THEN [hangs |-> FALSE, chunks |-> <<>>]
    ELSE LET stripped == [i \in 1..Len(ReSplit(text, SentencePunct, TRUE)) |->
                             Strip(ReSplit(text, SentencePunct, TRUE)[i])]
             sentences == SelectSeq(stripped, LAMBDA x : x # <<>>)
             res == chunk_sentences(sentences, max_tokens, <<>>, <<>>, 0)
         IN [hangs |-> res.hangs,
             chunks |-> IF res.hangs THEN <<>>
                        ELSE SelectSeq(res.chunks, LAMBDA c : Strip(c) # <<>>)]

NoChunk == [called |-> FALSE, text |-> <<>>, max_tokens |-> 0,
            hangs |-> FALSE, chunks |-> <<>>]

\* chunk_text is called; one call at a time.
ChunkTextCall(text, max_tokens) ==
    /\ ~lastChunk.called
    /\ lastChunk' = [called |-> TRUE, text |-> text, max_tokens |-> max_tokens,
                     hangs |-> chunk_text(text, max_tokens).hangs,
                     chunks |-> chunk_text(text, max_tokens).chunks]
    /\ UNCHANGED <<queryVars, rateVars, convVars, lastEmbed, lastUpsert, index>>

\* The caller has consumed the chunks (or given up on the call).
ChunkReturn ==
    /\ lastChunk.called
    /\ lastChunk' = NoChunk
    /\ UNCHANGED <<queryVars, rateVars, convVars, lastEmbed, lastUpsert, index>>

(***************************************************************************)
(* The embedding gateway (src/embedding.py).  A text is named by its       *)
(* position in the list given to the function, and the vector the provider *)
(* returns for a text by that name.                                        *)
(***************************************************************************)

\* The longest list of texts given to batch_generate_embeddings.
MaxTexts == 3

\* The largest batch_size given to batch_generate_embeddings.
MaxBatchSize == 2

\* MAX_RETRIES of src/embedding.py.
MAX_RETRIES == 3

\* None, and the embedding of the text named t.
NoneEntry == [none |-> TRUE, of |-> 0]
VectorOf(t) == [none |-> FALSE, of |-> t]

RECURSIVE embed_attempts(_, _, _)
\* "for attempt in range(MAX_RETRIES)" of get_embedding, from the given
\* attempt on, when the first `failing` calls of the provider raise: the
\* vector of the first call that succeeds; None after the last attempt
\* failed.  attempts counts the calls of the provider, sleeps the calls of
\* time.sleep(RETRY_DELAY): one after each failed attempt but the last.
embed_attempts(attempt, failing, text) ==
    IF attempt >= MAX_RETRIES
    THEN [result |-> NoneEntry, attempts |-> attempt, sleeps |-> attempt]
    ELSE IF attempt >= failing
         THEN [result |-> VectorOf(text), attempts |-> attempt + 1,
               sleeps |-> attempt]
         ELSE IF attempt = MAX_RETRIES - 1
              THEN [result |-> NoneEntry, attempts |-> attempt + 1,
                    sleeps |-> attempt]
              ELSE embed_attempts(attempt + 1, failing, text)

\* get_embedding going through all the attempts, whatever their outcome.
get_embedding_NoReturn(clientOk, failing, text) ==
    IF ~clientOk THEN [result |-> NoneEntry, attempts |-> 0, sleeps |-> 0]
    ELSE [result |-> embed_attempts(0, failing, text).result,
          attempts |-> MAX_RETRIES, sleeps |-> MAX_RETRIES - 1]

\* get_embedding(text): None when no client can be made.
get_embedding(clientOk, failing, text) ==
    IF ~clientOk THEN [result |-> NoneEntry, attempts |-> 0, sleeps |-> 0]
    ELSE embed_attempts(0, failing, text)

\* embeddings.extend([None]) in place of one None per text of the batch.
failed_batch_entries_One(batch) == <<NoneEntry>>

\* [None] * len(batch)
failed_batch_entries(batch) == [i \in 1..Len(batch) |-> NoneEntry]

\* texts[i:i + batch_size], i counted from 0
PySlice(texts, i, j) ==
    IF i >= Len(texts) THEN <<>>
    ELSE SubSeq(texts, i + 1, IF j > Len(texts) THEN Len(texts) ELSE j)

RECURSIVE batch_loop(_, _, _, _, _)
\* "for i in range(0, len(texts), batch_size)" of batch_generate_embeddings
\* from offset i on; failing[b] is the number of calls for the b-th batch
\* that raise before one succeeds.
batch_loop(i, texts, batch_size, failing, embeddings) ==
    IF i >= Len(texts) THEN embeddings
    ELSE LET batch == PySlice(texts, i, i + batch_size)
             b == (i \div batch_size) + 1
             r == embed_attempts(0, failing[b], 0)
         IN batch_loop(i + batch_size, texts, batch_size, failing,
                       embeddings \o
                           (IF r.result.none THEN failed_batch_entries(batch)
                            ELSE [k \in 1..Len(batch) |-> VectorOf(batch[k])]))

\* batch_generate_embeddings(texts, batch_size)
batch_generate_embeddings(clientOk, texts, batch_size, failing) ==
    IF ~clientOk THEN [i \in 1..Len(texts) |-> NoneEntry]
    ELSE batch_loop(0, texts, batch_size, failing, <<>>)

NoEmbed == [fn |-> "none", clientOk |-> FALSE, texts |-> <<>>, batch_size |-> 0,
            failing |-> <<>>, result |-> <<>>, attempts |-> 0, sleeps |-> 0,
            raised |-> FALSE]

\* get_embedding is called; it catches every exception and never raises.
GetEmbeddingCall(clientOk, failing) ==
    /\ lastEmbed.fn = "none"
    /\ lastEmbed' = [fn |-> "get_embedding", clientOk |-> clientOk,
                     texts |-> <<1>>, batch_size |-> 0,
                     failing |-> <<failing>>,
                     result |-> <<get_embedding(clientOk, failing, 1).result>>,
                     attempts |-> get_embedding(clientOk, failing, 1).attempts,
                     sleeps |-> get_embedding(clientOk, failing, 1).sleeps,
                     raised |-> FALSE]
    /\ UNCHANGED <<queryVars, rateVars, convVars, lastChunk, lastUpsert, index>>

\* batch_generate_embeddings is called on n texts.
BatchGenerateEmbeddingsCall(clientOk, n, batch_size, failing) ==
    /\ lastEmbed.fn = "none"
    /\ lastEmbed' = [fn |-> "batch_generate_embeddings", clientOk |-> clientOk,
                     texts |-> [i \in 1..n |-> i], batch_size |-> batch_size,
                     failing |-> failing,
                     result |-> batch_generate_embeddings(
                                    clientOk, [i \in 1..n |-> i], batch_size, failing),
                     attempts |-> 0, sleeps |-> 0, raised |-> FALSE]
    /\ UNCHANGED <<queryVars, rateVars, convVars, lastChunk, lastUpsert, index>>

\* The caller has consumed the embeddings.
EmbedReturn ==
    /\ lastEmbed.fn # "none"
    /\ lastEmbed' = NoEmbed
    /\ UNCHANGED <<queryVars, rateVars, convVars, lastChunk, lastUpsert, index>>

(***************************************************************************)
(* The upsert paths into the vector index: upsert_embeddings               *)
(* (src/vector_db.py), upload_batch and process_and_upload                 *)
(* (src/upload_to_pinecone.py) and upload_to_pinecone                      *)
(* (src/rag_indexer.py).  A chunk is named by its position in the list     *)
(* given to the function; of its embedding the model keeps the number of   *)
(* values.  The index is the external service: whether a call of           *)
(* index.upsert raises is an input.                                        *)
(***************************************************************************)
MaxChunks == 3
MaxUpsertBatch == 2
MaxUpsertCalls == 2

DIMENSION == 1536
UPSERT_MAX_RETRIES == 3
PINECONE_BATCH_CEILING == 100

\* The id "chunk_<n>" that upsert_embeddings gives the chunk it enumerates
\* as n, the "id" field of the n-th chunk of a file of chunks, and the id
\* "batch_<time.time()>" that upload_batch returns for a batch whose upload
\* raised.
ChunkId(n) == [kind |-> "chunk", n |-> n]
FileChunkId(n) == [kind |-> "file", n |-> n]
BatchPlaceholderId == [kind |-> "batch", n |-> 0]

\* What a chunk of the input can look like: an embedding of DIMENSION
\* values, an embedding of another length, a chunk without its "embedding"
\* field, and an embedding with a value that float() rejects.
ChunkShapes ==
    {[dim |-> DIMENSION, form |-> "ok"], [dim |-> DIMENSION - 1, form |-> "ok"],
     [dim |-> 0, form |-> "missing"], [dim |-> DIMENSION, form |-> "bad"]}

\* EmbeddedChunk objects always carry an embedding.
EmbeddedChunkShapes == {s \in ChunkShapes : s.form = "ok"}

ChunkList(shapes) ==
    [i \in 1..Len(shapes) |->
        [id |-> FileChunkId(i), dim |-> shapes[i].dim, form |-> shapes[i].form]]

\* The number of batches of "range(0, n, batch_size)".
NumBatches(n, batch_size) == (n + batch_size - 1) \div batch_size

RECURSIVE upsert_attempts(_, _, _)
\* "for attempt in range(max_retries)" of upsert_embeddings from the given
\* attempt on, when the first `failing` calls of index.upsert raise.
upsert_attempts(attempt, max_retries, failing) ==
    IF attempt >= max_retries THEN [ok |-> FALSE, attempts |-> attempt]
    ELSE IF attempt >= failing THEN [ok |-> TRUE, attempts |-> attempt + 1]
         ELSE upsert_attempts(attempt + 1, max_retries, failing)

RECURSIVE upsert_loop(_, _, _, _, _)
\* "for i in range(0, len(vectors), batch_size)" of upsert_embeddings from
\* offset i on.  acc.calls lists, per batch, the vectors given to
\* index.upsert and whether one of the attempts went through.
upsert_loop(i, vectors, batch_size, failing, acc) ==
    IF i >= Len(vectors) THEN acc
    ELSE LET batch == PySlice(vectors, i, i + batch_size)
             b == (i \div batch_size) + 1
             r == upsert_attempts(0, UPSERT_MAX_RETRIES, failing[b])
         IN upsert_loop(i + batch_size, vectors, batch_size, failing,
                [success |-> acc.success /\ r.ok,
                 calls |-> Append(acc.calls,
                               [vectors |-> batch, ok |-> r.ok,
                                attempts |-> r.attempts])])

\* upsert_embeddings(index, embedded_chunks, batch_size): the vectors are
\* built from every chunk, with the id "chunk_<i>" of enumerate (from 0).
upsert_embeddings(embedded_chunks, batch_size, failing) ==
    LET vectors == [i \in 1..Len(embedded_chunks) |->
                       [id |-> ChunkId(i - 1), dim |-> embedded_chunks[i].dim]]
    IN upsert_loop(0, vectors, batch_size, failing,
                   [success |-> TRUE, calls |-> <<>>])

RECURSIVE prepare_batch(_, _, _)
\* The "for chunk in batch" loop of upload_batch from position k on: a chunk
\* whose conversion raises is counted as failed under its own id.
prepare_batch(k, batch, acc) ==
    IF k > Len(batch) THEN acc
    ELSE prepare_batch(k + 1, batch,
            IF batch[k].form = "ok"
            THEN [acc EXCEPT !.vectors =
                      Append(@, [id |-> batch[k].id, dim |-> batch[k].dim])]
            ELSE [acc EXCEPT !.failed = @ + 1,
                             !.failed_ids = Append(@, batch[k].id)])

\* upload_batch(index, batch) -> (successful, failed, failed_ids); `raises`
\* tells whether index.upsert raises.
upload_batch(batch, raises) ==
    LET p == prepare_batch(1, batch,
                 [vectors |-> <<>>, failed |-> 0, failed_ids |-> <<>>])
    IN IF p.vectors = <<>>
       THEN [successful |-> 0, failed |-> p.failed, failed_ids |-> p.failed_ids,
             calls |-> <<>>]
       ELSE IF raises
            THEN [successful |-> 0, failed |-> Len(batch),
                  failed_ids |-> <<BatchPlaceholderId>>,
                  calls |-> <<[vectors |-> p.vectors, ok |-> FALSE, attempts |-> 1]>>]
            ELSE [successful |-> Len(p.vectors), failed |-> p.failed,
                  failed_ids |-> p.failed_ids,
                  calls |-> <<[vectors |-> p.vectors, ok |-> TRUE, attempts |-> 1]>>]

\* "success, failed, failed_ids = upload_batch(index, current_batch)" and the
\* three additions that follow it; b counts the calls of upload_batch.
upload_current_batch(acc, failing) ==
    LET r == upload_batch(acc.current_batch, failing[acc.b] > 0)
    IN [successful_uploads |-> acc.successful_uploads + r.successful,
        failed_uploads |-> acc.failed_uploads + r.failed,
        failed_chunk_ids |-> acc.failed_chunk_ids \o r.failed_ids,
        current_batch |-> <<>>, b |-> acc.b + 1, calls |-> acc.calls \o r.calls]

RECURSIVE process_chunks(_, _, _, _, _)
\* The "for chunk in chunks" loop of process_and_upload from position k on,
\* and the upload of the remaining chunks after it.
process_chunks(k, chunks, batch_size, failing, acc) ==
    IF k > Len(chunks)
    THEN IF acc.current_batch # <<>> THEN upload_current_batch(acc, failing)
         ELSE acc
    ELSE IF chunks[k].form = "missing"
         THEN process_chunks(k + 1, chunks, batch_size, failing,
                  [acc EXCEPT !.failed_uploads = @ + 1])
         ELSE LET added == [acc EXCEPT !.current_batch = Append(@, chunks[k])]
              IN process_chunks(k + 1, chunks, batch_size, failing,
                     IF Len(added.current_batch) >= batch_size
                     THEN upload_current_batch(added, failing)
                     ELSE added)

\* process_and_upload over the chunks of the file.
process_and_upload(chunks, batch_size, failing) ==
    process_chunks(1, chunks, batch_size, failing,
        [successful_uploads |-> 0, failed_uploads |-> 0,
         failed_chunk_ids |-> <<>>, current_batch |-> <<>>, b |-> 1,
         calls |-> <<>>])

\* min(batch_size, 100)
PyMin(a, b) == IF a < b THEN a ELSE b

\* The "final validation before upload" of upload_to_pinecone: a chunk
\* without an embedding of 1536 values is skipped, and so is one whose
\* preparation raises.
valid_for_upload(chunk) == chunk.form = "ok" /\ chunk.dim = DIMENSION

RECURSIVE upload_loop(_, _, _, _, _)
\* "for i in range(0, len(vectors), batch_size)" of upload_to_pinecone: one
\* call of index.upsert per batch, and the next batch after a failure.
upload_loop(i, vectors, batch_size, failing, calls) ==
    IF i >= Len(vectors) THEN calls
    ELSE LET b == (i \div batch_size) + 1
         IN upload_loop(i + batch_size, vectors, batch_size, failing,
                Append(calls, [vectors |-> PySlice(vectors, i, i + batch_size),
                               ok |-> failing[b] = 0, attempts |-> 1]))

\* upload_to_pinecone(chunks, batch_size) of the indexer.
upload_to_pinecone(chunks, batch_size, failing) ==
    LET valid == SelectSeq(chunks, valid_for_upload)
        vectors == [i \in 1..Len(valid) |-> [id |-> valid[i].id, dim |-> valid[i].dim]]
    IN upload_loop(0, vectors, PyMin(batch_size, PINECONE_BATCH_CEILING), failing, <<>>)

\* The index stores one vector per id: an upsert of a batch that goes
\* through replaces the vectors that have the ids of the batch.  Of a stored
\* vector the model keeps its id and the call that stored it.
index_upsert(vectors, batch, call) ==
    {v \in vectors : \A k \in 1..Len(batch) : batch[k].id # v.id}
    \cup {[id |-> batch[k].id, call |-> call] : k \in 1..Len(batch)}

RECURSIVE index_after(_, _, _, _)
\* The stored vectors after the calls of index.upsert from the j-th on.
index_after(vectors, calls, j, call) ==
    IF j > Len(calls) THEN vectors
    ELSE index_after(IF calls[j].ok THEN index_upsert(vectors, calls[j].vectors, call)
                     ELSE vectors,
                     calls, j + 1, call)

\* The index after one more call of an upsert path.
IndexAfterCall(calls) ==
    [vectors |-> index_after(index.vectors, calls, 1, index.calls + 1),
     calls |-> index.calls + 1]

\* describe_index_stats()["total_vector_count"]
total_vector_count(idx) == Cardinality(idx.vectors)

EmptyIndex == [vectors |-> {}, calls |-> 0]

NoUpsert == [fn |-> "none", chunks |-> <<>>, batch_size |-> 0, failing |-> <<>>,
             calls |-> <<>>, success |-> TRUE, successful |-> 0, failed |-> 0,
             failed_ids |-> <<>>]

\* upsert_embeddings is called; it returns a boolean.
UpsertEmbeddingsCall(shapes, batch_size, failing) ==
    /\ lastUpsert.fn = "none"
    /\ index.calls < MaxUpsertCalls
    /\ LET chunks == ChunkList(shapes)
           r == upsert_embeddings(chunks, batch_size, failing)
       IN /\ lastUpsert' = [fn |-> "upsert_embeddings", chunks |-> chunks,
                         batch_size |-> batch_size, failing |-> failing,
                         calls |-> r.calls, success |-> r.success,
                         successful |-> 0, failed |-> 0, failed_ids |-> <<>>]
          /\ index' = IndexAfterCall(r.calls)
    /\ UNCHANGED <<queryVars, rateVars, convVars, lastChunk, lastEmbed>>

\* upload_batch is called on one batch; it returns the three counts.
UploadBatchCall(shapes, raises) ==
    /\ lastUpsert.fn = "none"
    /\ index.calls < MaxUpsertCalls
    /\ LET batch == ChunkList(shapes)
           r == upload_batch(batch, raises)
       IN /\ lastUpsert' = [fn |-> "upload_batch", chunks |-> batch,
                         batch_size |-> Len(batch),
                         failing |-> <<IF raises THEN 1 ELSE 0>>,
                         calls |-> r.calls, success |-> TRUE,
                         successful |-> r.successful, failed |-> r.failed,
                         failed_ids |-> r.failed_ids]
          /\ index' = IndexAfterCall(r.calls)
    /\ UNCHANGED <<queryVars, rateVars, convVars, lastChunk, lastEmbed>>

\* process_and_upload is run over a file of chunks; its summary is the
\* three counters it logs.
ProcessAndUploadCall(shapes, batch_size, failing) ==
    /\ lastUpsert.fn = "none"
    /\ index.calls < MaxUpsertCalls
    /\ LET chunks == ChunkList(shapes)
           r == process_and_upload(chunks, batch_size, failing)
       IN /\ lastUpsert' = [fn |-> "process_and_upload", chunks |-> chunks,
                         batch_size |-> batch_size, failing |-> failing,
                         calls |-> r.calls, success |-> TRUE,
                         successful |-> r.successful_uploads,
                         failed |-> r.failed_uploads,
                         failed_ids |-> r.failed_chunk_ids]
          /\ index' = IndexAfterCall(r.calls)
    /\ UNCHANGED <<queryVars, rateVars, convVars, lastChunk, lastEmbed>>

\* upload_to_pinecone of the indexer is called; it returns nothing.
UploadToPineconeCall(shapes, batch_size, failing) ==
    /\ lastUpsert.fn = "none"
    /\ index.calls < MaxUpsertCalls
    /\ LET chunks == ChunkList(shapes)
           calls == upload_to_pinecone(chunks, batch_size, failing)
       IN /\ lastUpsert' = [fn |-> "upload_to_pinecone", chunks |-> chunks,
                            batch_size |-> batch_size, failing |-> failing,
                            calls |-> calls,
                            success |-> TRUE, successful |-> 0, failed |-> 0,
                            failed_ids |-> <<>>]
          /\ index' = IndexAfterCall(calls)
    /\ UNCHANGED <<queryVars, rateVars, convVars, lastChunk, lastEmbed>>

\* The caller has read the result.
UpsertReturn ==
    /\ lastUpsert.fn # "none"
    /\ lastUpsert' = NoUpsert
    /\ UNCHANGED <<queryVars, rateVars, convVars, lastChunk, lastEmbed, index>>

\* The indexing variables while another specification runs.
InitIndexIdle ==
    /\ lastChunk = NoChunk /\ lastEmbed = NoEmbed /\ lastUpsert = NoUpsert
    /\ index = EmptyIndex

(***************************************************************************)
(* The conversation store.  Three ConversationManager instances exist in   *)
(* the running service, each constructed at import over the same storage   *)
(* directory "conversations": the one of src/chat.py (used by              *)
(* generate_response), the one of src/conversation.py (used by             *)
(* get_conversation_history and save_conversation) and the one of          *)
(* src/api/main.py (used by the read and cleanup routes).                  *)
(***************************************************************************)

\* max_messages of every conversation (the dataclass default, scaled down).
MaxMessages == 2

\* The clock runs from day 0 to day MaxTime.
MaxTime == 2

\* How many messages are ever appended to one conversation object.
MaxLog == 4

\* The window sizes asked of get_context_window are 0..MaxWindow.
MaxWindow == 3

\* How many chat requests are made.
NumRequests == 2

Managers == {"chat", "conv", "api"}

ConvIds == {"c1", "c2"}

\* The order in which a manager's dictionary is iterated.
ConvOrder == <<"c1", "c2">>

Requests == 1..NumRequests

\* days_old of a cleanup call; both routes require days_old >= 1.
DaysOld == {1, 2}

\* time.time(): a float.
time_time(t) == [kind |-> "float", v |-> t]

\* datetime.now() - timedelta(days=days_old): a datetime.
cutoff_of(t, days_old) == [kind |-> "datetime", v |-> t - days_old]

\* PyLess comparing the two numbers whatever their types.
PyLess_Numeric(a, b) == IF a.v < b.v THEN "True" ELSE "False"

\* a < b in Python: a float and a datetime are not ordered, the comparison
\* raises TypeError.
PyLess(a, b) ==
    IF a.kind # b.kind THEN "TypeError"
    ELSE IF a.v < b.v THEN "True" ELSE "False"

\* Message(role, content, timestamp=time.time())
Message(role, content, t) == [role |-> role, content |-> content, timestamp |-> t]

NoConv == [present |-> FALSE]
NoFile == [present |-> FALSE]

\* Conversation(id, storage_dir): no messages, created now.  log is history:
\* every message ever appended to (or loaded into) the object, in order.
NewConversation(t) ==
    [present |-> TRUE, messages |-> <<>>, max_messages |-> MaxMessages,
     last_updated |-> time_time(t), log |-> <<>>]

\* s[-k:] for k >= 1
PySuffix(s, k) == IF k >= Len(s) THEN s ELSE SubSeq(s, Len(s) - k + 1, Len(s))

\* Conversation._prune_history
prune_history(messages, max_messages) ==
    IF Len(messages) > max_messages THEN PySuffix(messages, max_messages)
    ELSE messages

\* Conversation.to_dict: the JSON document of the conversation.
to_dict(conv) ==
    [present |-> TRUE, messages |-> conv.messages,
     max_messages |-> conv.max_messages, last_updated |-> conv.last_updated.v]

\* Conversation.from_dict: the messages are restored as stored, unpruned.
from_dict(data) ==
    [present |-> TRUE, messages |-> data.messages,
     max_messages |-> data.max_messages,
     last_updated |-> [kind |-> "float", v |-> data.last_updated],
     log |-> data.messages]

\* Conversation.save / ConversationManager._save_conversation: the file is
\* rewritten from the object; an error while writing is printed and swallowed.
save(d, cid, conv, writeOk) ==
    IF writeOk THEN [d EXCEPT ![cid] = to_dict(conv)] ELSE d

\* Conversation.add_message: append, stamp, prune, save.
Conversation_add_message(conv, cid, d, role, content, t, writeOk) ==
    LET msg == Message(role, content, t)
        c2 == [conv EXCEPT
                  !.messages = prune_history(Append(@, msg), conv.max_messages),
                  !.last_updated = time_time(t),
                  !.log = Append(@, msg)]
    IN [conv |-> c2, disk |-> save(d, cid, c2, writeOk)]

\* Conversation.get_messages: limit = 0 is falsy and selects every message.
get_messages(conv, limit) ==
    LET messages == IF limit # 0 THEN PySuffix(conv.messages, limit)
                    ELSE conv.messages
    IN [i \in 1..Len(messages) |->
           [role |-> messages[i].role, content |-> messages[i].content]]

\* Conversation.get_context_window
get_context_window(conv, window_size) == get_messages(conv, window_size)

\* ConversationManager._load_conversations: one conversation per file.
load_conversations(d) ==
    [c \in ConvIds |-> IF d[c].present THEN from_dict(d[c]) ELSE NoConv]

RECURSIVE sorted_recent(_, _)
\* sorted(..., key=last_updated, reverse=True) over the first k ids of the
\* dictionary order: descending, and stable among equal keys.
sorted_recent(mconvs, k) ==
    IF k = 0 THEN <<>>
    ELSE LET rest == sorted_recent(mconvs, k - 1)
             c == ConvOrder[k]
             before == SelectSeq(rest, LAMBDA x :
                          mconvs[x].last_updated.v >= mconvs[c].last_updated.v)
             after == SelectSeq(rest, LAMBDA x :
                          mconvs[x].last_updated.v < mconvs[c].last_updated.v)
         IN IF mconvs[c].present THEN before \o <<c>> \o after ELSE rest

\* ConversationManager.get_recent_conversations(limit), limit >= 1: the ids
\* of the conversations, the most recently updated first.
get_recent_conversations(mconvs, limit) ==
    LET sorted_convs == sorted_recent(mconvs, Len(ConvOrder))
    IN SubSeq(sorted_convs, 1, IF limit < Len(sorted_convs) THEN limit
                               ELSE Len(sorted_convs))

\* GET /conversations/recent on the manager of src/api/main.py: to_dict of
\* each of the recent conversations.
recent_route(mconvs, limit) ==
    LET ids == get_recent_conversations(mconvs, limit)
    IN [i \in 1..Len(ids) |-> [id |-> ids[i], record |-> to_dict(mconvs[ids[i]])]]

\* GET /chat/{conversation_id} on the manager of src/api/main.py: 404 for an
\* id that is not in the manager's dictionary, else the messages.
get_conversation_route(mconvs, cid) ==
    IF ~mconvs[cid].present THEN [status |-> 404, messages |-> <<>>]
    ELSE [status |-> 200, messages |-> mconvs[cid].messages]

\* A file left by an earlier run of the service: one exchange, written on day 0.
EarlierFile ==
    [present |-> TRUE,
     messages |-> <<Message("user", <<"query", 0>>, 0),
                    Message("assistant", <<"reply", 0>>, 0)>>,
     max_messages |-> MaxMessages, last_updated |-> 0]

\* context_window_size of generate_response; chat_endpoint does not pass it.
CONTEXT_WINDOW_SIZE == 5

\* The messages list of generate_response for the completion provider: the
\* system prompt, the retrieved context if there is any, the context window
\* of the conversation and the query.
prompt_messages(conv, query, hasContext) ==
    <<[role |-> "system", content |-> <<"system_prompt", 0>>]>>
    \o (IF hasContext
        THEN <<[role |-> "system", content |-> <<"context_text", 0>>]>>
        ELSE <<>>)
    \o get_context_window(conv, CONTEXT_WINDOW_SIZE)
    \o <<[role |-> "user", content |-> query]>>

\* The query of a request: the empty string, whitespace only, or a text.
QueryKinds == {"empty", "blank", "text"}

\* external: the request has called the vector index, the embedding provider
\* or the completion provider.  ref: generate_response holds in its local
\* variable `conversation` the Conversation object it obtained from the
\* manager of src/chat.py.
IdleRequest == [pc |-> "idle", endpoint |-> "", query |-> "", cid |-> "",
                status |-> 0, response |-> "none", completion |-> "none",
                external |-> FALSE, prompt |-> <<>>, ref |-> FALSE]

\* removed: the ids whose file or entry the call removed; inflight: the chat
\* requests that were suspended at an external call when it ran.
NoCleanup == [called |-> FALSE, days_old |-> 0, status |-> 0, removed |-> {},
              inflight |-> {}]

NoAdd == [called |-> FALSE, cid |-> "", content |-> <<>>, known |-> FALSE]

\* The conversation variables while another specification runs.
InitConvIdle ==
    /\ now = 0
    /\ disk = [c \in ConvIds |-> NoFile]
    /\ convs = [m \in Managers |-> [c \in ConvIds |-> NoConv]]
    /\ req = [r \in Requests |-> IdleRequest]
    /\ lastCleanup = NoCleanup
    /\ lastAdd = NoAdd

\* The service has started: every manager has loaded the storage directory.
InitConv ==
    /\ now = 0
    /\ disk \in [ConvIds -> {NoFile, EarlierFile}]
    /\ convs = [m \in Managers |-> load_conversations(disk)]
    /\ req = [r \in Requests |-> IdleRequest]
    /\ lastCleanup = NoCleanup
    /\ lastAdd = NoAdd

(***************************************************************************)
(* Rate limiting of the HTTP routes.  The limiter keys its counters by the *)
(* client's remote address and the decorated route (fixed-window           *)
(* strategy); the model follows the requests of one client.                *)
(***************************************************************************)

\* How many routes may have an open window at the same time.
MaxActiveKeys == 2

\* How many requests beyond the quota are sent within one window.
MaxOver == 1

\* "30/minute" of get_chat_rate_limiter, decorating POST /chat.
CHAT_LIMIT == 30
\* "60/minute" decorating GET /conversations/recent.
RECENT_LIMIT == 60
\* "60/minute" decorating GET /chat/{conversation_id}.
GET_CONVERSATION_LIMIT == 60
\* "10/minute" of get_cleanup_rate_limiter, decorating POST /chat/cleanup.
CHAT_CLEANUP_LIMIT == 10
\* CLEANUP_RATE_LIMIT = "10/minute", decorating POST /conversations/cleanup.
CLEANUP_RATE_LIMIT == 10

CHAT_RETRY_TIME == 30
CONVERSATION_RETRY_TIME == 45
CLEANUP_RETRY_TIME == 60

\* The rate-limited routes of the chat, conversation-management and cleanup
\* endpoint classes.
Routes ==
    {"chat", "recent", "get_conversation", "chat_cleanup", "conversations_cleanup"}

\* request.url.path of a route, as the sequence of its separators and segments.
PathOf(route) ==
    CASE route = "chat" -> <<"/", "api", "/", "v1", "/", "chat">>
      [] route = "recent" ->
            <<"/", "api", "/", "v1", "/", "conversations", "/", "recent">>
      [] route = "get_conversation" ->
            <<"/", "api", "/", "v1", "/", "chat", "/", "{conversation_id}">>
      [] route = "chat_cleanup" ->
            <<"/", "api", "/", "v1", "/", "chat", "/", "cleanup">>
      [] route = "conversations_cleanup" ->
            <<"/", "api", "/", "v1", "/", "conversations", "/", "cleanup">>

\* QuotaOf with every route under the limiter's default of 60 per minute.
QuotaOf_Default(route) == RECENT_LIMIT

\* The quota of the limit decorating the route.
QuotaOf(route) ==
    CASE route = "chat" -> CHAT_LIMIT
      [] route = "recent" -> RECENT_LIMIT
      [] route = "get_conversation" -> GET_CONVERSATION_LIMIT
      [] route = "chat_cleanup" -> CHAT_CLEANUP_LIMIT
      [] route = "conversations_cleanup" -> CLEANUP_RATE_LIMIT

\* The endpoint class a route is rate-limited as ("Chat endpoints",
\* "Conversation management endpoints", "Cleanup endpoint").
EndpointClass(route) ==
    CASE route = "chat" -> "chat"
      [] route \in {"recent", "get_conversation"} -> "conversation"
      [] route \in {"chat_cleanup", "conversations_cleanup"} -> "cleanup"

\* needle in path
Contains(path, needle) ==
    \E i \in 1..(Len(path) - Len(needle) + 1) :
        SubSeq(path, i, i + Len(needle) - 1) = needle

\* str(n) of a non-negative integer: its decimal digits.
RECURSIVE ToDigits(_)
ToDigits(n) == IF n < 10 THEN <<n>> ELSE Append(ToDigits(n \div 10), n % 10)

\* The endpoint type and retry time rate_limit_handler derives from the path.
ClassifyPath(path) ==
    IF Contains(path, <<"/", "chat">>) /\ ~Contains(path, <<"cleanup">>)
    THEN [endpoint_type |-> "chat", retry_after |-> CHAT_RETRY_TIME]
    ELSE IF Contains(path, <<"/", "conversations">>)
         THEN [endpoint_type |-> "conversation", retry_after |-> CONVERSATION_RETRY_TIME]
         ELSE IF Contains(path, <<"/", "cleanup">>)
              THEN [endpoint_type |-> "cleanup", retry_after |-> CLEANUP_RETRY_TIME]
              ELSE [endpoint_type |-> "unknown", retry_after |-> CLEANUP_RETRY_TIME]

\* rate_limit_handler: the 429 response to a request the limiter denied.
rate_limit_handler(route, n) ==
    LET c == ClassifyPath(PathOf(route)) IN
    [route |-> route, n |-> n, denied |-> TRUE, status |-> 429,
     endpoint_type |-> c.endpoint_type, retry_after |-> c.retry_after,
     retry_after_header |-> ToDigits(c.retry_after)]

\* A request the limiter admits goes on to the route's own handler.
Admitted(route, n) ==
    [route |-> route, n |-> n, denied |-> FALSE, status |-> 0,
     endpoint_type |-> "", retry_after |-> 0, retry_after_header |-> <<>>]

NoResp ==
    [route |-> "", n |-> 0, denied |-> FALSE, status |-> 0,
     endpoint_type |-> "", retry_after |-> 0, retry_after_header |-> <<>>]

\* The fixed-window test of the limiter: the request is counted, and admitted
\* when the count does not exceed the quota.
WithinLimit(count, quota) == count <= quota

ActiveKeys == {r \in Routes : hits[r] > 0}

\* The client sends a request to a route.
RateRequest(route) ==
    /\ hits[route] < QuotaOf(route) + MaxOver
    /\ hits[route] = 0 => Cardinality(ActiveKeys) < MaxActiveKeys
    /\ hits' = [hits EXCEPT ![route] = @ + 1]
    /\ lastResp' = IF WithinLimit(hits'[route], QuotaOf(route))
                   THEN Admitted(route, hits'[route])
                   ELSE rate_limit_handler(route, hits'[route])
    /\ UNCHANGED <<indexVars, queryVars, convVars>>

\* The one-minute window of a route's counter ends: the counter starts anew.
\* lastResp keeps a response only while the window it was counted in is open.
WindowElapsed(route) ==
    /\ hits[route] > 0
    /\ hits' = [hits EXCEPT ![route] = 0]
    /\ lastResp' = IF lastResp.route = route THEN NoResp ELSE lastResp
    /\ UNCHANGED <<indexVars, queryVars, convVars>>

InitRateVars ==
    /\ hits = [r \in Routes |-> 0]
    /\ lastResp = NoResp


(***************************************************************************)
(* Vector query adapter.  Scores are in hundredths (0.95 is 95).           *)
(***************************************************************************)

\* The longest list of matches the provider returns in the model.
MaxMatches == 3

\* The scores a provider match may carry (cosine similarity lies in [-1, 1]).
Scores == {-20, 0, 70, 88, 90, 92, 95}

\* The thresholds a caller may pass.
Thresholds == {-50, 0, 70, 90}

\* query_similar's default score_threshold (0.0).
QUERY_SIMILAR_DEFAULT_THRESHOLD == 0

\* A match either carries a score or has no 'score' key.
ScoreOpts ==
    {[hasScore |-> TRUE, score |-> s] : s \in Scores}
        \cup {[hasScore |-> FALSE, score |-> 0]}

\* The lists of matches the provider may answer with: the i-th match has id i.
ProviderMatches ==
    UNION {
        {[i \in 1..n |-> [id |-> i, hasScore |-> f[i].hasScore, score |-> f[i].score]]
            : f \in [1..n -> ScoreOpts]}
        : n \in 0..MaxMatches}

\* m.get('score', 0)
ScoreOf(m) == IF m.hasScore THEN m.score ELSE 0

\* FilterByScore with the comparison made strict.
FilterByScore_Strict(matches, score_threshold) ==
    SelectSeq(matches, LAMBDA m : ScoreOf(m) > score_threshold)

\* [m for m in matches if m.get('score', 0) >= score_threshold]
FilterByScore(matches, score_threshold) ==
    SelectSeq(matches, LAMBDA m : ScoreOf(m) >= score_threshold)

\* query_similar: index.query may raise (providerOk = FALSE), which is caught
\* and answered with []; the filter is applied only when score_threshold > 0.
query_similar(providerOk, matches, score_threshold) ==
    IF ~providerOk
    THEN <<>>
    ELSE IF score_threshold > 0
         THEN FilterByScore(matches, score_threshold)
         ELSE matches

\* embed_query: None for a blank query or when no embedding is produced.
embed_query(queryBlank, embedOk) == ~queryBlank /\ embedOk

\* get_similar_chunks: [] when the index or the embedding is missing, else the
\* matches of query_similar (called with its default threshold) filtered by
\* score_threshold.
get_similar_chunks(indexOk, queryBlank, embedOk, providerOk, matches, score_threshold) ==
    IF ~indexOk
    THEN <<>>
    ELSE IF ~embed_query(queryBlank, embedOk)
         THEN <<>>
         ELSE FilterByScore(
                  query_similar(providerOk, matches, QUERY_SIMILAR_DEFAULT_THRESHOLD),
                  score_threshold)

NoQuery ==
    [fn |-> "none", threshold |-> 0, providerOk |-> FALSE,
     provider |-> <<>>, result |-> <<>>, embedFailed |-> FALSE,
     outcome |-> "none"]

\* One call at a time: a call is made when no result is pending.  Both
\* functions catch every exception and return a list: the outcome of a call
\* is always "list", never "raised".
QuerySimilarCall(thr, providerOk, ms) ==
    /\ lastQuery.fn = "none"
    /\ UNCHANGED <<indexVars, rateVars, convVars>>
    /\ lastQuery' = [fn |-> "query_similar", threshold |-> thr,
                     providerOk |-> providerOk,
                     provider |-> IF providerOk THEN ms ELSE <<>>,
                     result |-> query_similar(providerOk, ms, thr),
                     embedFailed |-> FALSE, outcome |-> "list"]

GetSimilarChunksCall(thr, indexOk, queryBlank, embedOk, providerOk, ms) ==
    /\ lastQuery.fn = "none"
    /\ UNCHANGED <<indexVars, rateVars, convVars>>
    /\ lastQuery' = [fn |-> "get_similar_chunks", threshold |-> thr,
                     providerOk |-> indexOk /\ ~queryBlank /\ embedOk /\ providerOk,
                     provider |-> IF indexOk /\ ~queryBlank /\ embedOk /\ providerOk
                                  THEN ms ELSE <<>>,
                     result |-> get_similar_chunks(indexOk, queryBlank, embedOk,
                                                   providerOk, ms, thr),
                     embedFailed |-> indexOk /\ ~queryBlank /\ ~embedOk,
                     outcome |-> "list"]

\* The caller has consumed the result.
QueryReturn ==
    /\ lastQuery.fn # "none"
    /\ lastQuery' = NoQuery
    /\ UNCHANGED <<indexVars, rateVars, convVars>>

InitQuery == lastQuery = NoQuery /\ InitRateVars /\ InitConvIdle /\ InitIndexIdle

NextQuery ==
    \/ \E thr \in Thresholds, ok \in BOOLEAN, ms \in ProviderMatches :
          QuerySimilarCall(thr, ok, ms)
    \/ \E thr \in Thresholds, iok \in BOOLEAN, blank \in BOOLEAN, eok \in BOOLEAN,
          pok \in BOOLEAN, ms \in ProviderMatches :
          GetSimilarChunksCall(thr, iok, blank, eok, pok, ms)
    \/ QueryReturn

SpecQuery == InitQuery /\ [][NextQuery]_vars

InitRate == lastQuery = NoQuery /\ InitRateVars /\ InitConvIdle /\ InitIndexIdle

NextRate ==
    \/ \E r \in Routes : RateRequest(r)
    \/ \E r \in Routes : WindowElapsed(r)

SpecRate == InitRate /\ [][NextRate]_vars



(***************************************************************************)
(* The operations on the conversation store and the chat requests.  The    *)
(* service runs on one event loop: a request runs without interruption     *)
(* between two awaits that suspend it.                                      *)
(***************************************************************************)

\* A day passes.
Tick ==
    /\ now < MaxTime
    /\ now' = now + 1
    /\ lastAdd' = NoAdd
    /\ UNCHANGED <<indexVars, queryVars, rateVars, disk, convs, req, lastCleanup>>

\* ConversationManager.add_message(cid, "user", content) on manager m: nothing
\* happens when the manager does not know the id.
ConversationManager_add_message(m, cid, writeOk) ==
    LET conv == convs[m][cid]
        content == <<"text", IF conv.present THEN Len(conv.log) + 1 ELSE 1>>
    IN
    /\ conv.present => Len(conv.log) < MaxLog
    /\ IF conv.present
       THEN LET a == Conversation_add_message(conv, cid, disk, "user",
                                              content, now, writeOk)
            IN /\ convs' = [convs EXCEPT ![m][cid] = a.conv]
               /\ disk' = a.disk
       ELSE UNCHANGED <<convs, disk>>
    /\ lastAdd' = [called |-> TRUE, cid |-> cid, content |-> content,
                   known |-> conv.present]
    /\ UNCHANGED <<indexVars, queryVars, rateVars, now, req, lastCleanup>>

\* save_conversation of src/conversation.py, on that module's manager: the
\* conversation is looked up or created, the user message and the response
\* are appended to its list, and the file is rewritten.
save_conversation(mconvs, d, cid, query, response, t, writeOk) ==
    LET conv0 == IF mconvs[cid].present THEN mconvs[cid] ELSE NewConversation(t)
        added == <<Message("user", query, t), Message("assistant", response, t)>>
        conv1 == [conv0 EXCEPT !.messages = @ \o added, !.log = @ \o added]
    IN [convs |-> [mconvs EXCEPT ![cid] = conv1],
        disk |-> save(d, cid, conv1, writeOk)]

\* POST /chat arrives with a query and conversation id cid.  ChatRequest
\* rejects the empty query (min_length=1) with 422; any other query, one of
\* whitespace only included, reaches chat_endpoint, which runs up to its
\* first await, the retrieval of main.py line 385.
ChatStart(r, query, cid) ==
    /\ req[r].pc = "idle"
    /\ r > 1 => req[r - 1].pc # "idle"
    /\ req' = [req EXCEPT ![r] =
                  IF query = "empty"
                  THEN [@ EXCEPT !.pc = "done", !.endpoint = "chat",
                                 !.query = query, !.status = 422]
                  ELSE [@ EXCEPT !.pc = "retrieving", !.endpoint = "chat",
                                 !.query = query, !.cid = cid,
                                 !.external = TRUE]]
    /\ UNCHANGED <<indexVars, queryVars, rateVars, now, disk, convs, lastCleanup, lastAdd>>

\* POST /query arrives.  QueryRequest rejects the empty query with 422 and
\* query_endpoint rejects a query of whitespace only with 422; any other
\* query goes to the retrieval.
QueryStart(r, query) ==
    /\ req[r].pc = "idle"
    /\ r > 1 => req[r - 1].pc # "idle"
    /\ req' = [req EXCEPT ![r] =
                  IF query \in {"empty", "blank"}
                  THEN [@ EXCEPT !.pc = "done", !.endpoint = "query",
                                 !.query = query, !.status = 422]
                  ELSE [@ EXCEPT !.pc = "retrieving", !.endpoint = "query",
                                 !.query = query, !.external = TRUE]]
    /\ UNCHANGED <<indexVars, queryVars, rateVars, now, disk, convs, lastCleanup, lastAdd>>

\* The retrieval of a query request returns: 200 with the results, or 500 if
\* it raised.
QueryRetrieved(r, ok) ==
    /\ req[r].pc = "retrieving"
    /\ req[r].endpoint = "query"
    /\ req' = [req EXCEPT ![r] =
                  [@ EXCEPT !.pc = "done", !.status = IF ok THEN 200 ELSE 500]]
    /\ UNCHANGED <<indexVars, queryVars, rateVars, now, disk, convs, lastCleanup, lastAdd>>

\* The retrieval returns.  If it raised, chat_endpoint answers 500.  Else
\* generate_response is entered: it takes the conversation from the manager
\* of src/chat.py, creating it if unknown, and awaits its own retrieval.
\* No operation removes or replaces an entry of that manager, so the
\* conversation the request holds across the await is the manager's entry.
ChatRetrieved(r, ok) ==
    /\ req[r].pc = "retrieving"
    /\ req[r].endpoint = "chat"
    /\ IF ok
       THEN /\ convs' = [convs EXCEPT !["chat"][req[r].cid] =
                            IF @.present THEN @ ELSE NewConversation(now)]
            /\ req' = [req EXCEPT ![r] = [@ EXCEPT !.pc = "generating",
                                                   !.ref = TRUE]]
       ELSE /\ req' = [req EXCEPT ![r] = [@ EXCEPT !.pc = "done", !.status = 500]]
            /\ UNCHANGED convs
    /\ UNCHANGED <<indexVars, queryVars, rateVars, now, disk, lastCleanup, lastAdd>>

\* generate_response resumes and runs to its end, then chat_endpoint calls
\* save_conversation and answers 200.  The user message is added first; the
\* completion call follows; the reply is added if it succeeded.  Any
\* exception makes generate_response return None.  hasContext: the retrieval
\* of generate_response returned at least one chunk.
ChatGenerate(r, retrievalOk, hasContext, completionOk, w1, w2, w3) ==
    /\ req[r].pc = "generating"
    /\ LET cid == req[r].cid
           c0 == convs["chat"][cid]
           a1 == IF retrievalOk
                 THEN Conversation_add_message(c0, cid, disk, "user",
                                               <<"query", r>>, now, w1)
                 ELSE [conv |-> c0, disk |-> disk]
           replied == retrievalOk /\ completionOk
           a2 == IF replied
                 THEN Conversation_add_message(a1.conv, cid, a1.disk, "assistant",
                                               <<"reply", r>>, now, w2)
                 ELSE a1
           response == IF replied THEN <<"reply", r>> ELSE <<"None", 0>>
           s == save_conversation(convs["conv"], a2.disk, cid, <<"query", r>>,
                                  response, now, w3)
       IN /\ convs' = [convs EXCEPT !["chat"][cid] = a2.conv, !["conv"] = s.convs]
          /\ disk' = s.disk
          /\ req' = [req EXCEPT ![r] =
                        [@ EXCEPT !.pc = "done", !.status = 200, !.ref = FALSE,
                             !.response = IF replied THEN "reply" ELSE "None",
                             !.prompt = IF retrievalOk
                                        THEN prompt_messages(a1.conv, <<"query", r>>,
                                                             hasContext)
                                        ELSE <<>>,
                             !.completion = IF ~retrievalOk THEN "skipped"
                                            ELSE IF completionOk THEN "ok"
                                            ELSE "failed"]]
    /\ UNCHANGED <<indexVars, queryVars, rateVars, now, lastCleanup, lastAdd>>

RECURSIVE cleanup_loop(_, _, _, _, _, _)
\* The loop of cleanup_old_conversations from the i-th entry on, and the
\* removal from memory after it.  An exception leaves the loop at once.
cleanup_loop(i, mconvs, d, to_remove, cutoff, unlinkFails) ==
    IF i > Len(ConvOrder)
    THEN [raised |-> FALSE,
          convs |-> [c \in ConvIds |-> IF c \in to_remove THEN NoConv ELSE mconvs[c]],
          disk |-> d]
    ELSE LET c == ConvOrder[i] IN
         IF ~mconvs[c].present
         THEN cleanup_loop(i + 1, mconvs, d, to_remove, cutoff, unlinkFails)
         ELSE LET lt == PyLess(mconvs[c].last_updated, cutoff) IN
              IF lt = "TypeError"
              THEN [raised |-> TRUE, convs |-> mconvs, disk |-> d]
              ELSE IF lt = "False"
              THEN cleanup_loop(i + 1, mconvs, d, to_remove, cutoff, unlinkFails)
              ELSE IF d[c].present /\ unlinkFails = c
              THEN [raised |-> TRUE, convs |-> mconvs, disk |-> d]
              ELSE cleanup_loop(i + 1, mconvs,
                                IF d[c].present THEN [d EXCEPT ![c] = NoFile] ELSE d,
                                to_remove \cup {c}, cutoff, unlinkFails)

\* ConversationManager.cleanup_old_conversations(days_old); unlinkFails names
\* the file whose deletion raises, if any.
cleanup_old_conversations(mconvs, d, t, days_old, unlinkFails) ==
    cleanup_loop(1, mconvs, d, {}, cutoff_of(t, days_old), unlinkFails)

\* POST /conversations/cleanup or POST /chat/cleanup: the manager of
\* src/api/main.py cleans up; an exception becomes a 500 response.
Cleanup(days_old, unlinkFails) ==
    /\ ~lastCleanup.called
    /\ LET res == cleanup_old_conversations(convs["api"], disk, now, days_old,
                                            unlinkFails)
       IN /\ convs' = [convs EXCEPT !["api"] = res.convs]
          /\ disk' = res.disk
          /\ lastCleanup' =
                [called |-> TRUE, days_old |-> days_old,
                 status |-> IF res.raised THEN 500 ELSE 200,
                 removed |-> {c \in ConvIds :
                                \/ disk[c].present /\ ~res.disk[c].present
                                \/ convs["api"][c].present /\ ~res.convs[c].present},
                 inflight |-> {r \in Requests :
                                 req[r].pc \in {"retrieving", "generating"}}]
    /\ lastAdd' = NoAdd
    /\ UNCHANGED <<indexVars, queryVars, rateVars, now, req>>

\* The response to the cleanup call has been delivered.
CleanupReturn ==
    /\ lastCleanup.called
    /\ lastCleanup' = NoCleanup
    /\ lastAdd' = NoAdd
    /\ UNCHANGED <<indexVars, queryVars, rateVars, now, disk, convs, req>>

Init == lastQuery = NoQuery /\ InitRateVars /\ InitConv /\ InitIndexIdle

\* The chat requests.  They take seconds and the clock counts days: the
\* clock does not move while they run.
Next ==
    \/ \E r \in Requests, query \in QueryKinds, cid \in ConvIds :
          ChatStart(r, query, cid)
    \/ \E r \in Requests, query \in QueryKinds : QueryStart(r, query)
    \/ \E r \in Requests, ok \in BOOLEAN : QueryRetrieved(r, ok)
    \/ \E r \in Requests, ok \in BOOLEAN : ChatRetrieved(r, ok)
    \/ \E r \in Requests, rok \in BOOLEAN, hasContext \in BOOLEAN, cok \in BOOLEAN,
          w1 \in BOOLEAN, w2 \in BOOLEAN, w3 \in BOOLEAN :
          ChatGenerate(r, rok, hasContext, cok, w1, w2, w3)

Spec == Init /\ [][Next]_vars

\* The store operations of one manager and the cleanup routes.
NextStore ==
    \/ Tick
    \/ \E cid \in ConvIds, w \in BOOLEAN : ConversationManager_add_message("api", cid, w)
    \/ \E days_old \in DaysOld, u \in ConvIds \cup {"none"} : Cleanup(days_old, u)
    \/ CleanupReturn

SpecStore == Init /\ [][NextStore]_vars

\* The service over days: chat requests whose writes go through, with the
\* cleanup routes called while requests are in flight.
NextService ==
    \/ Tick
    \/ \E r \in Requests, cid \in ConvIds : ChatStart(r, "text", cid)
    \/ \E r \in Requests, ok \in BOOLEAN : ChatRetrieved(r, ok)
    \/ \E r \in Requests, rok \in BOOLEAN, cok \in BOOLEAN :
          ChatGenerate(r, rok, TRUE, cok, TRUE, TRUE, TRUE)
    \/ \E days_old \in DaysOld : Cleanup(days_old, "none")
    \/ CleanupReturn

SpecService == Init /\ [][NextService]_vars

InitChunk == lastQuery = NoQuery /\ InitRateVars /\ InitConvIdle /\ InitIndexIdle

NextChunk ==
    \/ /\ ~lastChunk.called
       /\ \E text \in Texts, max_tokens \in 1..MaxTokens :
              ChunkTextCall(text, max_tokens)
    \/ ChunkReturn

SpecChunk == InitChunk /\ [][NextChunk]_vars

InitEmbed == lastQuery = NoQuery /\ InitRateVars /\ InitConvIdle /\ InitIndexIdle

NextEmbed ==
    \/ \E clientOk \in BOOLEAN, failing \in 0..MAX_RETRIES :
          GetEmbeddingCall(clientOk, failing)
    \/ \E clientOk \in BOOLEAN, n \in 0..MaxTexts, batch_size \in 1..MaxBatchSize,
          failing \in [1..MaxTexts -> 0..MAX_RETRIES] :
          BatchGenerateEmbeddingsCall(clientOk, n, batch_size, failing)
    \/ EmbedReturn

SpecEmbed == InitEmbed /\ [][NextEmbed]_vars

InitUpsert == lastQuery = NoQuery /\ InitRateVars /\ InitConvIdle /\ InitIndexIdle

NextUpsert ==
    \/ \E n \in 0..MaxChunks, batch_size \in 1..MaxUpsertBatch :
         \E shapes \in [1..n -> EmbeddedChunkShapes],
            failing \in [1..NumBatches(n, batch_size) -> 0..UPSERT_MAX_RETRIES] :
              UpsertEmbeddingsCall(shapes, batch_size, failing)
    \/ \E n \in 0..MaxChunks : \E shapes \in [1..n -> ChunkShapes], raises \in BOOLEAN :
         UploadBatchCall(shapes, raises)
    \/ \E n \in 0..MaxChunks, batch_size \in 1..MaxUpsertBatch :
         \E shapes \in [1..n -> ChunkShapes],
            failing \in [1..NumBatches(n, batch_size) -> {0, 1}] :
              ProcessAndUploadCall(shapes, batch_size, failing)
    \/ \E n \in 0..MaxChunks, batch_size \in 1..MaxUpsertBatch :
         \E shapes \in [1..n -> ChunkShapes],
            failing \in [1..NumBatches(n, batch_size) -> {0, 1}] :
              UploadToPineconeCall(shapes, batch_size, failing)
    \/ UpsertReturn

SpecUpsert == InitUpsert /\ [][NextUpsert]_vars


(***************************************************************************)
(* Properties of the vector query adapter (SpecQuery).                     *)
(***************************************************************************)

\* C7: no item returned by query_similar or by get_similar_chunks has a score
\* below the score_threshold of the call.
C7_NoResultBelowThreshold ==
    \A i \in 1..Len(lastQuery.result) :
        lastQuery.result[i].hasScore =>
            lastQuery.result[i].score >= lastQuery.threshold

\* The matches of ms that carry a score of at least thr, in the order of ms.
C8_AtLeast(ms, thr) ==
    SelectSeq(ms, LAMBDA m : m.hasScore /\ m.score >= thr)

\* a is b with some elements left out, the others in b's order.
C8_IsSubSeq(a, b) ==
    /\ \A i \in 1..Len(a) : a[i].id \in 1..Len(b) /\ a[i] = b[a[i].id]
    /\ \A i, j \in 1..Len(a) : i < j => a[i].id < a[j].id

\* C8: when the provider answers, query_similar returns every match whose
\* score is at least score_threshold, in the provider's order and without
\* re-sorting; with a positive threshold it returns no other scored match.
C8_StablePostFilter ==
    (lastQuery.fn = "query_similar" /\ lastQuery.providerOk) =>
        /\ C8_AtLeast(lastQuery.result, lastQuery.threshold)
              = C8_AtLeast(lastQuery.provider, lastQuery.threshold)
        /\ C8_IsSubSeq(lastQuery.result, lastQuery.provider)
        /\ lastQuery.threshold > 0 =>
              \A i \in 1..Len(lastQuery.result) :
                  lastQuery.result[i].hasScore =>
                      lastQuery.result[i].score >= lastQuery.threshold

\* Threshold 0.9 against provider scores [0.95, 0.88, 0.92] returned the
\* matches 0.95 and 0.92, in that order.
C8_Witness ==
    /\ lastQuery.fn = "query_similar"
    /\ lastQuery.providerOk
    /\ lastQuery.threshold = 90
    /\ Len(lastQuery.provider) = 3
    /\ \A i \in 1..3 : lastQuery.provider[i].hasScore
    /\ [i \in 1..3 |-> lastQuery.provider[i].score] = <<95, 88, 92>>
    /\ Len(lastQuery.result) = 2
    /\ [i \in 1..2 |-> lastQuery.result[i].id] = <<1, 3>>

(***************************************************************************)
(* Properties of the rate limiting (SpecRate).                             *)
(***************************************************************************)

\* The quota the claims state for the endpoint class of a route.
C9_Quota(route) ==
    CASE route = "chat" -> 30
      [] route \in {"recent", "get_conversation"} -> 60
      [] route \in {"chat_cleanup", "conversations_cleanup"} -> 10

RECURSIVE C9_SumHits(_)
C9_SumHits(rs) ==
    IF rs = {} THEN 0
    ELSE LET r == CHOOSE x \in rs : TRUE IN hits[r] + C9_SumHits(rs \ {r})

\* The requests of the client to the routes of one endpoint class, within the
\* windows now open.
C9_ClassHits(class) == C9_SumHits({r \in Routes : EndpointClass(r) = class})

RECURSIVE C10_FromDigits(_)
C10_FromDigits(ds) ==
    IF ds = <<>> THEN 0
    ELSE 10 * C10_FromDigits(SubSeq(ds, 1, Len(ds) - 1)) + ds[Len(ds)]

\* The endpoint class and retry time a denial on the route is to report.
C10_Expected(route) ==
    CASE route = "chat" -> [endpoint_type |-> "chat", retry_after |-> 30]
      [] route \in {"recent", "get_conversation"} ->
            [endpoint_type |-> "conversation", retry_after |-> 45]
      [] route \in {"chat_cleanup", "conversations_cleanup"} ->
            [endpoint_type |-> "cleanup", retry_after |-> 60]

\* C10: every denial reports the endpoint class of the denied route and that
\* class's retry_after, and its Retry-After header equals the body's
\* retry_after.
C10_DenialReportsClass ==
    lastResp.denied =>
        /\ lastResp.endpoint_type = C10_Expected(lastResp.route).endpoint_type
        /\ lastResp.retry_after = C10_Expected(lastResp.route).retry_after
        /\ C10_FromDigits(lastResp.retry_after_header) = lastResp.retry_after

(***************************************************************************)
(* Properties of the conversation store and the chat requests (Spec) and   *)
(* of the cleanup (SpecStore).                                              *)
(***************************************************************************)

\* The last n elements of s, or all of s if it has fewer.
C1_LastN(s, n) ==
    IF Len(s) <= n THEN s ELSE [i \in 1..n |-> s[Len(s) - n + i]]

\* C1: every conversation holds at most max_messages messages, and they are
\* the most recently appended ones in the order they were appended.
C1_SlidingWindow ==
    \A m \in Managers, c \in ConvIds :
        convs[m][c].present =>
            /\ Len(convs[m][c].messages) <= convs[m][c].max_messages
            /\ convs[m][c].messages
                  = C1_LastN(convs[m][c].log, convs[m][c].max_messages)

\* The list holds the user message and the reply of request r.
C2_Holds(messages, r) ==
    /\ \E i \in 1..Len(messages) :
          messages[i].role = "user" /\ messages[i].content = <<"query", r>>
    /\ \E i \in 1..Len(messages) :
          messages[i].role = "assistant" /\ messages[i].content = <<"reply", r>>

\* The list holds the messages of request r unless the trim to max_messages
\* can have removed them.
C2_Kept(messages, r) == C2_Holds(messages, r) \/ Len(messages) >= MaxMessages

\* C2: once no chat request is in flight, the conversation of every request
\* that was answered with a reply holds that request's user message and
\* reply, in the memory of the chat path's managers and in its file, trim
\* aside.
C2_NoLostMessage ==
    (\A r \in Requests : req[r].pc \in {"idle", "done"}) =>
        \A r \in Requests :
            (req[r].pc = "done" /\ req[r].response = "reply") =>
                /\ \A m \in {"chat", "conv"} :
                      /\ convs[m][req[r].cid].present
                      /\ C2_Kept(convs[m][req[r].cid].messages, r)
                /\ disk[req[r].cid].present
                /\ C2_Kept(disk[req[r].cid].messages, r)

\* The message list of a conversation or file, empty if there is none.
C3_Messages(x) == IF x.present THEN x.messages ELSE <<>>

\* C3: the step of a chat request in which the completion call fails changes
\* the message list of the request's conversation neither in memory nor in
\* its file.
C3_FailedCompletionAppendsNothing ==
    [][\A r \in Requests :
          (req[r].pc = "generating" /\ req'[r].pc = "done"
              /\ req'[r].completion = "failed") =>
              /\ \A m \in Managers :
                    C3_Messages(convs'[m][req[r].cid])
                        = C3_Messages(convs[m][req[r].cid])
              /\ C3_Messages(disk'[req[r].cid]) = C3_Messages(disk[req[r].cid])
      ]_vars

\* C4: a call of cleanup_old_conversations(days_old) leaves no conversation
\* last updated before now - days_old, and leaves every conversation updated
\* at or after now - days_old in memory and on disk as it was.
C4_CleanupCorrect ==
    [][(~lastCleanup.called /\ lastCleanup'.called) =>
          \A c \in ConvIds :
              /\ convs'["api"][c].present =>
                    convs'["api"][c].last_updated.v >= now - lastCleanup'.days_old
              /\ (/\ convs["api"][c].present
                  /\ convs["api"][c].last_updated.v >= now - lastCleanup'.days_old) =>
                    /\ convs'["api"][c] = convs["api"][c]
                    /\ disk'[c] = disk[c]
      ]_vars

C6_Min(a, b) == IF a <= b THEN a ELSE b

\* get_context_window(N) of a conversation returns min(N, stored) messages,
\* the most recent ones in chronological order, ending with the message
\* appended last.
C6_WindowOf(conv, N) ==
    LET w == get_context_window(conv, N)
        n == Len(conv.messages)
        k == C6_Min(N, n)
    IN /\ Len(w) = k
       /\ \A i \in 1..C6_Min(k, Len(w)) :
             /\ w[i].role = conv.messages[n - k + i].role
             /\ w[i].content = conv.messages[n - k + i].content
       /\ w # <<>> =>
             /\ w[Len(w)].role = conv.log[Len(conv.log)].role
             /\ w[Len(w)].content = conv.log[Len(conv.log)].content

\* C6: for every conversation and every window size N >= 0,
\* get_context_window(N) returns exactly min(N, stored messages) messages,
\* the most recent ones in order, the last being the message appended last.
C6_ContextWindowBound ==
    \A m \in Managers, c \in ConvIds, N \in 0..MaxWindow :
        convs[m][c].present => C6_WindowOf(convs[m][c], N)

(***************************************************************************)
(* Properties of the chunker (SpecChunk).                                  *)
(***************************************************************************)

\* C11: a call of chunk_text with max_tokens >= 1 returns chunks of at most
\* max_tokens tokens each, at least two of them when the text has more than
\* max_tokens tokens.
C11_ChunkBound ==
    lastChunk.called =>
        /\ ~lastChunk.hangs
        /\ \A i \in 1..Len(lastChunk.chunks) :
              count_tokens(lastChunk.chunks[i]) <= lastChunk.max_tokens
        /\ count_tokens(lastChunk.text) > lastChunk.max_tokens =>
              Len(lastChunk.chunks) >= 2

\* The characters of a text that are not whitespace, in order.
C12_NonSpace(text) == SelectSeq(text, LAMBDA ch : ch \notin SpaceChars)

RECURSIVE C12_Concat(_)
C12_Concat(chunks) ==
    IF chunks = <<>> THEN <<>> ELSE chunks[1] \o C12_Concat(Tail(chunks))

\* C12: the chunks chunk_text returns, concatenated in order, are the text
\* up to whitespace: the same characters other than whitespace, in the same
\* order.
C12_ConcatReproducesText ==
    (lastChunk.called /\ ~lastChunk.hangs) =>
        C12_NonSpace(C12_Concat(lastChunk.chunks)) = C12_NonSpace(lastChunk.text)

(***************************************************************************)
(* Further properties of the conversation store and the chat requests.     *)
(***************************************************************************)

\* C13: when add_message has appended a message to a conversation and
\* returned, the conversation's file holds that message as its last one.
C13_AppendDurable ==
    [][\A c \in ConvIds :
          (/\ convs["api"][c].present
           /\ convs'["api"][c].present
           /\ Len(convs'["api"][c].log) = Len(convs["api"][c].log) + 1) =>
              /\ disk'[c].present
              /\ disk'[c].messages # <<>>
              /\ disk'[c].messages[Len(disk'[c].messages)]
                    = convs'["api"][c].log[Len(convs'["api"][c].log)]
      ]_vars

\* C14: when embedding the query fails, get_similar_chunks fails: it does
\* not return a list of chunks.
C14_EmbeddingFailurePropagates ==
    (lastQuery.fn = "get_similar_chunks" /\ lastQuery.embedFailed) =>
        lastQuery.outcome = "raised"

\* C15: a chat request whose completion call failed is answered with status
\* 500, never with 200.
C15_CompletionFailureIs500 ==
    \A r \in Requests :
        (req[r].pc = "done" /\ req[r].completion = "failed") => req[r].status = 500

\* C16: a query or chat request whose query is empty or whitespace only is
\* rejected with 422 at once, before any call to the vector index, the
\* embedding provider or the completion provider.
C16_BlankQueryRejected ==
    \A r \in Requests :
        req[r].query \in {"empty", "blank"} =>
            /\ req[r].pc = "done"
            /\ req[r].status = 422
            /\ ~req[r].external

(***************************************************************************)
(* Properties of the embedding gateway (SpecEmbed).                        *)
(***************************************************************************)

\* C17: when every attempt of get_embedding fails, the call fails with an
\* error; it does not return None.
C17_ExhaustedRetriesRaise ==
    (/\ lastEmbed.fn = "get_embedding"
     /\ lastEmbed.clientOk
     /\ lastEmbed.failing[1] >= 3) =>
        /\ lastEmbed.raised
        /\ ~lastEmbed.result[1].none

\* The batch that holds the text at position p.
C18_BatchOf(p) == ((p - 1) \div lastEmbed.batch_size) + 1

\* The result has one entry per text, in the order of the texts.
C18_Aligned ==
    /\ Len(lastEmbed.result) = Len(lastEmbed.texts)
    /\ \A p \in 1..Len(lastEmbed.result) :
          ~lastEmbed.result[p].none => lastEmbed.result[p].of = lastEmbed.texts[p]

\* C18: batch_generate_embeddings returns one entry per text in input order,
\* and an entry is None exactly when its batch failed on all 3 attempts.
C18_BatchAlignedPartial ==
    lastEmbed.fn = "batch_generate_embeddings" =>
        /\ C18_Aligned
        /\ \A p \in 1..Len(lastEmbed.texts) :
              p <= Len(lastEmbed.result) =>
                  (lastEmbed.result[p].none
                      <=> lastEmbed.failing[C18_BatchOf(p)] >= 3)

\* C18, counting the call without a client: an entry is None exactly when no
\* client could be made or its batch failed on all 3 attempts.
C18_BatchAlignedPartialOrNoClient ==
    lastEmbed.fn = "batch_generate_embeddings" =>
        /\ C18_Aligned
        /\ \A p \in 1..Len(lastEmbed.texts) :
              p <= Len(lastEmbed.result) =>
                  (lastEmbed.result[p].none
                      <=> (\/ ~lastEmbed.clientOk
                           \/ lastEmbed.failing[C18_BatchOf(p)] >= 3))

\* Three texts in batches of two: the first batch failed on every attempt, the
\* second succeeded on a retry; the result is None, None, the third vector.
C18_Witness ==
    /\ lastEmbed.fn = "batch_generate_embeddings"
    /\ lastEmbed.clientOk
    /\ Len(lastEmbed.texts) = 3
    /\ lastEmbed.batch_size = 2
    /\ lastEmbed.failing[1] = 3
    /\ lastEmbed.failing[2] = 1
    /\ lastEmbed.result = <<[none |-> TRUE, of |-> 0], [none |-> TRUE, of |-> 0],
                            [none |-> FALSE, of |-> 3]>>

(***************************************************************************)
(* Properties of the upsert paths (SpecUpsert).                            *)
(***************************************************************************)
\* The vectors of the batches whose upload failed, and the number of vectors
\* of all the batches that were attempted.
C19_FailedVectors ==
    UNION {{lastUpsert.calls[j].vectors[k] : k \in 1..Len(lastUpsert.calls[j].vectors)} :
              j \in {i \in 1..Len(lastUpsert.calls) : ~lastUpsert.calls[i].ok}}

C19_AttemptedCount ==
    LET RECURSIVE Sum(_)
        Sum(j) == IF j = 0 THEN 0
                  ELSE Len(lastUpsert.calls[j].vectors) + Sum(j - 1)
    IN Sum(Len(lastUpsert.calls))

\* The chunks the path has to send: every chunk for upsert_embeddings, the
\* chunks whose vector can be built for the other two.
C19_Sendable ==
    {k \in 1..Len(lastUpsert.chunks) : lastUpsert.chunks[k].form = "ok"}

\* C19: when a batch fails after its retries, every later batch is still
\* attempted and the result reports the failure: upsert_embeddings returns
\* False; upload_batch and process_and_upload count the vectors of the
\* failed batch as failed and list their ids among the failed ids.
C19_PartialFailureReported ==
    (/\ lastUpsert.fn \in {"upsert_embeddings", "upload_batch", "process_and_upload"}
     /\ C19_FailedVectors # {})
    => /\ C19_AttemptedCount = Cardinality(C19_Sendable)
       /\ lastUpsert.fn = "upsert_embeddings" => ~lastUpsert.success
       /\ lastUpsert.fn # "upsert_embeddings" =>
            /\ lastUpsert.failed >= Cardinality(C19_FailedVectors)
            /\ \A v \in C19_FailedVectors :
                 \E k \in 1..Len(lastUpsert.failed_ids) :
                     lastUpsert.failed_ids[k] = v.id

\* C20: every vector given to index.upsert by any of the upsert paths has
\* exactly DIMENSION = 1536 values.
C20_DimensionInvariant ==
    \A j \in 1..Len(lastUpsert.calls) :
        \A k \in 1..Len(lastUpsert.calls[j].vectors) :
            lastUpsert.calls[j].vectors[k].dim = DIMENSION

(***************************************************************************)
(* Further properties of the conversation store (SpecStore).               *)
(***************************************************************************)
\* C21: after ConversationManager.add_message on an id the manager did not
\* know, the conversation exists in the manager, its last message is the
\* one added, and its file exists.
C21_CreatedOnFirstReference ==
    (lastAdd.called /\ ~lastAdd.known)
    => /\ convs["api"][lastAdd.cid].present
       /\ convs["api"][lastAdd.cid].messages # <<>>
       /\ convs["api"][lastAdd.cid].messages[
              Len(convs["api"][lastAdd.cid].messages)].content = lastAdd.content
       /\ disk[lastAdd.cid].present

(***************************************************************************)
(* Further properties of the chat requests (Spec).                         *)
(***************************************************************************)
\* The part of a prompt after its leading system messages.
C22_NonSystem(prompt) == SelectSeq(prompt, LAMBDA m : m.role # "system")

C22_LeadingSystem(prompt) ==
    \A i \in 1..Len(prompt) : \A j \in 1..Len(prompt) :
        (prompt[i].role = "system" /\ prompt[j].role # "system") => i < j

\* C22: when generate_response calls the completion provider, the messages
\* are the system messages, then the context window of the history the
\* conversation had before the request, in order, then the query once, as
\* the last message.
C22_PromptAssembly ==
    [][\A r \in Requests :
          (req[r].pc = "generating" /\ req'[r].pc = "done"
           /\ req'[r].completion # "skipped")
          => /\ C22_LeadingSystem(req'[r].prompt)
             /\ C22_NonSystem(req'[r].prompt) =
                   get_context_window(convs["chat"][req[r].cid], CONTEXT_WINDOW_SIZE)
                   \o <<[role |-> "user", content |-> <<"query", r>>]>>]_vars

\* The chat requests on c that were answered with a reply.
C23_Replied(c) ==
    {r \in Requests : /\ req[r].pc = "done" /\ req[r].endpoint = "chat"
                      /\ req[r].cid = c /\ req[r].status = 200
                      /\ req[r].response = "reply"}

C23_Holds(messages, r) ==
    /\ \E i \in 1..Len(messages) :
          messages[i].role = "user" /\ messages[i].content = <<"query", r>>
    /\ \E i \in 1..Len(messages) :
          messages[i].role = "assistant" /\ messages[i].content = <<"reply", r>>

\* C23: after a chat request on c was answered with a reply, reading c by
\* id and listing the recent conversations return a record with the
\* request's user message and reply; after k such chats on a conversation
\* that was new and has no other messages, the record holds 2k messages
\* (2k within max_messages).
C23_OneStore ==
    \A c \in ConvIds :
        LET k == Cardinality(C23_Replied(c))
            byId == get_conversation_route(convs["api"], c)
            recent == recent_route(convs["api"], Len(ConvOrder))
        IN k >= 1 =>
             /\ byId.status = 200
             /\ \E i \in 1..Len(recent) : recent[i].id = c
             /\ 2 * k <= MaxMessages =>
                  /\ \A r \in C23_Replied(c) : C23_Holds(byId.messages, r)
                  /\ \A i \in 1..Len(recent) :
                        recent[i].id = c =>
                          \A r \in C23_Replied(c) :
                              C23_Holds(recent[i].record.messages, r)
             /\ (/\ 2 * k <= MaxMessages
                 /\ Len(convs["chat"][c].log) = 2 * k
                 /\ \A r \in Requests : req[r].cid = c => req[r].pc = "done")
                => Len(byId.messages) = 2 * k

(***************************************************************************)
(* Further properties of the upsert paths (SpecUpsert).                    *)
(***************************************************************************)
\* C24: when a call of upsert_embeddings on n chunks returns True, the index
\* holds n more vectors than before the call, whatever calls came before.
C24_UpsertAddsVectors ==
    [][(/\ lastUpsert.fn = "none"
        /\ lastUpsert'.fn = "upsert_embeddings"
        /\ lastUpsert'.success)
       => total_vector_count(index') =
              total_vector_count(index) + Len(lastUpsert'.chunks)]_vars

(***************************************************************************)
(* Further properties of the chunker (SpecChunk).                          *)
(***************************************************************************)
\* C25: chunk_text returns on every text and every max_tokens >= 1.
C25_ChunkTextTerminates ==
    (lastChunk.called /\ lastChunk.max_tokens >= 1) => ~lastChunk.hangs

\* re.findall(r'\w+', text): the maximal runs of word characters, in order.
C30_WordTokens(text) ==
    LET F[i \in 0..Len(text)] ==
            IF i = 0 THEN <<>>
            ELSE IF text[i] \notin WordChars THEN F[i - 1]
            ELSE IF i > 1 /\ text[i - 1] \in WordChars
                 THEN [F[i - 1] EXCEPT ![Len(F[i - 1])] = Append(@, text[i])]
                 ELSE Append(F[i - 1], <<text[i]>>)
    IN F[Len(text)]

RECURSIVE C30_TokensOfChunks(_)
C30_TokensOfChunks(chunks) ==
    IF chunks = <<>> THEN <<>>
    ELSE C30_WordTokens(chunks[1]) \o C30_TokensOfChunks(Tail(chunks))

\* C30: when chunk_text returns, the word tokens of the chunks, taken chunk
\* after chunk in order, are the word tokens of the text: no word is
\* dropped, duplicated or reordered.
C30_WordsPreserved ==
    (lastChunk.called /\ ~lastChunk.hangs)
    => C30_TokensOfChunks(lastChunk.chunks) = C30_WordTokens(lastChunk.text)

\* A call that went through the clause split and the word packing and
\* returned several chunks.
C30_Witness ==
    /\ lastChunk.called /\ ~lastChunk.hangs
    /\ Len(lastChunk.chunks) >= 2
    /\ count_tokens(lastChunk.text) > lastChunk.max_tokens
    /\ \E i \in 1..Len(lastChunk.text) : lastChunk.text[i] \in ClausePunct
    /\ \E i \in 1..Len(lastChunk.text) : lastChunk.text[i] \in SpaceChars

(***************************************************************************)
(* Further properties of the embedding gateway (SpecEmbed).                *)
(***************************************************************************)
\* C28: one call of get_embedding calls the provider at most 3 times, stops
\* at the first call that succeeds, waits RETRY_DELAY once between two
\* consecutive attempts and nowhere else, and ends with a vector or with
\* the failure (None).
C28_BoundedRetry ==
    lastEmbed.fn = "get_embedding" =>
        LET failing == lastEmbed.failing[1] IN
        /\ lastEmbed.attempts <= 3
        /\ (lastEmbed.clientOk /\ failing < 3) =>
              /\ lastEmbed.attempts = failing + 1
              /\ ~lastEmbed.result[1].none
        /\ (lastEmbed.clientOk /\ failing >= 3) =>
              /\ lastEmbed.attempts = 3
              /\ lastEmbed.result[1].none
        /\ lastEmbed.sleeps = (IF lastEmbed.attempts = 0 THEN 0
                               ELSE lastEmbed.attempts - 1)
        /\ Len(lastEmbed.result) = 1

\* A call that succeeded on its second attempt, after one wait.
C28_Witness ==
    /\ lastEmbed.fn = "get_embedding"
    /\ lastEmbed.clientOk
    /\ lastEmbed.failing[1] = 1
    /\ lastEmbed.attempts = 2
    /\ lastEmbed.sleeps = 1
    /\ ~lastEmbed.result[1].none

(***************************************************************************)
(* Properties of the chat requests under concurrency.                      *)
(***************************************************************************)
\* In a list of messages every user message is directly followed by an
\* assistant message that carries the reply to the same request.
C26_Paired(messages) ==
    \A i \in 1..Len(messages) :
        messages[i].role = "user" =>
            /\ i < Len(messages)
            /\ messages[i + 1].role = "assistant"
            /\ messages[i + 1].content = <<"reply", messages[i].content[2]>>

\* C26: in every conversation, in memory and on disk, whatever the
\* interleaving of the chat requests and whatever fails, each stored user
\* message is directly followed by the assistant reply of the same request.
C26_AlternatingRoles ==
    \A c \in ConvIds :
        /\ \A m \in Managers : convs[m][c].present => C26_Paired(convs[m][c].messages)
        /\ disk[c].present => C26_Paired(disk[c].messages)

\* The chat requests on conversations that a cleanup removed while they
\* were suspended at an external call, and that have completed since.
C27_ResumedAfterCleanup ==
    {r \in Requests : /\ lastCleanup.called
                      /\ r \in lastCleanup.inflight
                      /\ req[r].cid \in lastCleanup.removed
                      /\ req[r].pc = "done"}

\* C27: when a cleanup deleted conversation c while a chat request on c was
\* suspended at an external call, then after the request has completed c
\* has a file exactly if the managers have an entry for it; and a request
\* suspended at an external call holds no Conversation object obtained
\* before the suspension: it resolves the conversation by id afterwards.
C27_CleanupDuringChat ==
    /\ \A r \in C27_ResumedAfterCleanup :
          \A m \in Managers : disk[req[r].cid].present <=> convs[m][req[r].cid].present
    /\ \A r \in Requests :
          req[r].pc \in {"retrieving", "generating"} => ~req[r].ref

\* C29: the last_updated of a conversation never decreases, and every
\* operation that appends messages to a conversation (add_message and
\* save_conversation) leaves last_updated at the time of the append.
C29_LastUpdatedTracksAppends ==
    [][\A m \in Managers : \A c \in ConvIds :
          /\ (convs[m][c].present /\ convs'[m][c].present)
             => convs'[m][c].last_updated.v >= convs[m][c].last_updated.v
          /\ (/\ convs'[m][c].present
              /\ Len(convs'[m][c].log) >
                    (IF convs[m][c].present THEN Len(convs[m][c].log) ELSE 0))
             => convs'[m][c].last_updated.v = now]_vars

====
